---- MODULE Spec2Model ----
(***************************************************************************)
(* A model of mcp-github-enterprise: the HTTP/SSE transport server with    *)
(* its session maps (server/http.ts), the tool handlers of the MCP server  *)
(* (server/index.ts) and the GitHub HTTP client (utils/client.ts).         *)
(*                                                                         *)
(* Strings whose characters matter (session identifiers, tool parameters)  *)
(* are sequences of one-character strings, so that split and trim are      *)
(* computed and not assumed.                                               *)
(***************************************************************************)
EXTENDS Integers, Sequences, FiniteSets, TLC

(***************************************************************************)
(* Bounds of the model.                                                    *)
(***************************************************************************)
\* Number of SSE connections (GET /sse requests) a behaviour may open.
MaxConns == 2
\* Largest time, in abstract ticks, a timeout can be set to.
MaxTime == 2

Conns == 1..MaxConns

(***************************************************************************)
(* Session identifiers.                                                    *)
(***************************************************************************)
\* The absent or empty sessionId query parameter (falsy in JavaScript).
NoId == <<>>
\* Values a client may put in the sessionId query parameter of GET /sse.
QueryIds == { <<"a">> }
\* Values the two Math.random() calls of GET /sse may produce.
GeneratedIds == { <<"g">> }
\* Every key the session maps can hold.
SessionIds == QueryIds \cup GeneratedIds
\* Values a client may put in the sessionId query parameter of POST /messages.
PostIds == SessionIds \cup { <<"b">>, <<"a", "?", "x">> }
\* The shapes of a POST body that the handler tells apart.
Bodies == { "none", "nomethod", "method" }

\* urlSessionId.split('?')[0]: the part before the first '?'.
cleanSessionId(urlSessionId) ==
    LET marks == { i \in 1..Len(urlSessionId) : urlSessionId[i] = "?" }
    IN  IF marks = {} THEN urlSessionId
        ELSE SubSeq(urlSessionId, 1,
                    (CHOOSE i \in marks : \A j \in marks : i <= j) - 1)

VARIABLES
    transportMap,      \* session id -> transport (named by its connection)
    connectionStatus,  \* session id -> BOOLEAN
    ssePc,             \* connection -> position of its GET /sse handler
    sseSid,            \* connection -> the handler's sessionId constant
    closeListener,     \* connection -> whether req.on('close') is registered
    clientOpen,        \* connection -> whether the client is still attached
    lastPost,          \* the last POST /messages request and its response
    config,            \* the Config the GitHubClient was constructed with
    call,              \* the tool invocation being handled, and its position
    envelope,          \* the result envelope the tool handler returned
    req,               \* the GitHubClient.request call in progress
    outcome,           \* what axios did with the request
    lastError,         \* the GitHubError raised by GitHubClient.request
    requests,          \* upstream requests issued for the current invocation
    fn,                \* the function being applied on its own
    fnIn,              \* its arguments
    fnOut,             \* what it returned or threw
    fnDone,            \* whether it has returned
    proc               \* the server process: its mode, position and exit

httpVars == << transportMap, connectionStatus, ssePc, sseSid, closeListener,
               clientOpen, lastPost >>

toolVars == << config, call, envelope, req, outcome, lastError, requests >>

fnVars == << fn, fnIn, fnOut, fnDone >>

procVars == << proc >>

vars == << transportMap, connectionStatus, ssePc, sseSid, closeListener,
           clientOpen, lastPost, config, call, envelope, req, outcome,
           lastError, requests, fn, fnIn, fnOut, fnDone, proc >>

\* m with key k set to v (Map.prototype.set).
MapSet(m, k, v) == [ x \in DOMAIN m \cup {k} |-> IF x = k THEN v ELSE m[x] ]
\* m without key k (Map.prototype.delete).
MapDelete(m, k) == [ x \in DOMAIN m \ {k} |-> m[x] ]

EmptyMap == [ x \in {} |-> TRUE ]

NoPost == [ kind |-> "none" ]

HttpInit ==
    /\ transportMap = EmptyMap
    /\ connectionStatus = EmptyMap
    /\ ssePc = [ c \in Conns |-> "none" ]
    /\ sseSid = [ c \in Conns |-> NoId ]
    /\ closeListener = [ c \in Conns |-> FALSE ]
    /\ clientOpen = [ c \in Conns |-> FALSE ]
    /\ lastPost = NoPost

(***************************************************************************)
(* GET /sse, up to its await of server.connect(transport).                 *)
(***************************************************************************)
\* The session id: the query parameter, or a generated one when it is falsy.
SseSessionId(q, generated) == IF q # NoId THEN q ELSE generated

\* SseRegister that marks the session connected without storing its transport.
SseRegisterStatusOnly(c, sessionId) ==
    /\ connectionStatus' = MapSet(connectionStatus, sessionId, TRUE)
    /\ transportMap' = transportMap

\* connectionStatus.set(sessionId, true); transportMap.set(sessionId, transport)
SseRegister(c, sessionId) ==
    /\ connectionStatus' = MapSet(connectionStatus, sessionId, TRUE)
    /\ transportMap' = MapSet(transportMap, sessionId, c)

SseOpen(c, q, generated) ==
    /\ ssePc[c] = "none"
    /\ LET sessionId == SseSessionId(q, generated)
       IN  /\ sseSid' = [ sseSid EXCEPT ![c] = sessionId ]
           /\ SseRegister(c, sessionId)
    /\ ssePc' = [ ssePc EXCEPT ![c] = "connecting" ]
    /\ clientOpen' = [ clientOpen EXCEPT ![c] = TRUE ]
    /\ UNCHANGED << closeListener, lastPost >>
    /\ UNCHANGED << toolVars, fnVars, procVars >>

\* server.connect resolves: the handler registers req.on('close', ...).
SseConnectResolved(c) ==
    /\ ssePc[c] = "connecting"
    /\ ssePc' = [ ssePc EXCEPT ![c] = "connected" ]
    /\ closeListener' = [ closeListener EXCEPT ![c] = TRUE ]
    /\ UNCHANGED << transportMap, connectionStatus, sseSid, clientOpen, lastPost >>
    /\ UNCHANGED << toolVars, fnVars, procVars >>

\* server.connect rejects: the catch block answers 500 and returns.
SseConnectRejected(c) ==
    /\ ssePc[c] = "connecting"
    /\ ssePc' = [ ssePc EXCEPT ![c] = "failed" ]
    /\ UNCHANGED << transportMap, connectionStatus, sseSid, closeListener,
                    clientOpen, lastPost >>
    /\ UNCHANGED << toolVars, fnVars, procVars >>

\* A 'close' listener that closes every session of the server.
OnCloseDropsAll(c) ==
    /\ connectionStatus' = [ s \in DOMAIN connectionStatus |-> FALSE ]
    /\ transportMap' = EmptyMap

\* A 'close' listener that marks the session closed and keeps its transport.
OnCloseKeepsTransport(c) ==
    /\ connectionStatus' = MapSet(connectionStatus, sseSid[c], FALSE)
    /\ transportMap' = transportMap

\* The body of the 'close' listener of the connection's request.
OnClose(c) ==
    /\ connectionStatus' = MapSet(connectionStatus, sseSid[c], FALSE)
    /\ transportMap' = MapDelete(transportMap, sseSid[c])

\* The client disconnects and the request emits 'close' to its listener.
ClientCloseHandled(c) ==
    /\ clientOpen[c]
    /\ closeListener[c]
    /\ clientOpen' = [ clientOpen EXCEPT ![c] = FALSE ]
    /\ OnClose(c)
    /\ UNCHANGED << ssePc, sseSid, closeListener, lastPost >>
    /\ UNCHANGED << toolVars, fnVars, procVars >>

\* The client disconnects while no listener is registered: 'close' is emitted
\* once, to nobody.
ClientCloseUnheard(c) ==
    /\ clientOpen[c]
    /\ ~closeListener[c]
    /\ clientOpen' = [ clientOpen EXCEPT ![c] = FALSE ]
    /\ UNCHANGED << transportMap, connectionStatus, ssePc, sseSid,
                    closeListener, lastPost >>
    /\ UNCHANGED << toolVars, fnVars, procVars >>

(***************************************************************************)
(* POST /messages.                                                         *)
(***************************************************************************)
\* PostResult without the check of the looked-up transport: the call of
\* handlePostMessage on undefined throws, and the inner catch answers 500.
PostResultNoLookupCheck(urlSessionId, body, handled) ==
    IF urlSessionId = NoId THEN [ status |-> 400, transport |-> 0 ]
    ELSE IF body # "method" THEN [ status |-> 400, transport |-> 0 ]
    ELSE LET id == cleanSessionId(urlSessionId)
         IN  IF id \notin DOMAIN transportMap
                 THEN [ status |-> 500, transport |-> 0 ]
             ELSE IF handled = "ok"
                 THEN [ status |-> 202, transport |-> transportMap[id] ]
             ELSE [ status |-> 500, transport |-> transportMap[id] ]

\* PostResult with the session looked up before the body is validated.
PostResultLookupFirst(urlSessionId, body, handled) ==
    IF urlSessionId = NoId THEN [ status |-> 400, transport |-> 0 ]
    ELSE LET id == cleanSessionId(urlSessionId)
         IN  IF id \notin DOMAIN transportMap
                 THEN [ status |-> 404, transport |-> 0 ]
             ELSE IF body # "method" THEN [ status |-> 400, transport |-> 0 ]
             ELSE IF ~(id \in DOMAIN connectionStatus /\ connectionStatus[id])
                 THEN [ status |-> 400, transport |-> 0 ]
             ELSE IF handled = "ok"
                 THEN [ status |-> 202, transport |-> transportMap[id] ]
             ELSE [ status |-> 500, transport |-> transportMap[id] ]

\* The response of the handler and the transport the request was handed to
\* (0 when it was handed to none); handled is the outcome of
\* transport.handlePostMessage: "ok" or "throws".
PostResult(urlSessionId, body, handled) ==
    IF urlSessionId = NoId THEN [ status |-> 400, transport |-> 0 ]
    ELSE IF body # "method" THEN [ status |-> 400, transport |-> 0 ]
    ELSE LET id == cleanSessionId(urlSessionId)
         IN  IF id \notin DOMAIN transportMap
                 THEN [ status |-> 404, transport |-> 0 ]
             ELSE IF ~(id \in DOMAIN connectionStatus /\ connectionStatus[id])
                 THEN [ status |-> 400, transport |-> 0 ]
             ELSE IF handled = "ok"
                 THEN [ status |-> 202, transport |-> transportMap[id] ]
             ELSE [ status |-> 500, transport |-> transportMap[id] ]

\* PostMessages whose inner catch block also drops the session of the
\* transport that threw.
PostMessagesDropsSession(urlSessionId, body, handled) ==
    /\ LET r == PostResult(urlSessionId, body, handled)
           id == cleanSessionId(urlSessionId)
       IN  /\ lastPost' = [ kind |-> "post", sessionId |-> urlSessionId,
                            body |-> body, status |-> r.status,
                            transport |-> r.transport ]
           /\ IF r.status = 500
                  THEN /\ transportMap' = MapDelete(transportMap, id)
                       /\ connectionStatus' = MapSet(connectionStatus, id, FALSE)
                  ELSE UNCHANGED << transportMap, connectionStatus >>
    /\ UNCHANGED << ssePc, sseSid, closeListener, clientOpen >>
    /\ UNCHANGED << toolVars, fnVars, procVars >>

\* The handler of POST /messages from the request to its response.
Respond(urlSessionId, body, handled) ==
    /\ LET r == PostResult(urlSessionId, body, handled)
       IN  lastPost' = [ kind |-> "post", sessionId |-> urlSessionId,
                         body |-> body, status |-> r.status,
                         transport |-> r.transport ]
    /\ UNCHANGED << transportMap, connectionStatus, ssePc, sseSid,
                    closeListener, clientOpen >>

\* A POST /messages whose message starts no tool handler.
PostMessages(urlSessionId, body, handled) ==
    /\ Respond(urlSessionId, body, handled)
    /\ UNCHANGED << toolVars, fnVars, procVars >>

\* GET /health: res.json({ status: 'ok', ... }).
Health ==
    /\ lastPost' = [ kind |-> "health", sessionId |-> NoId, body |-> "none",
                     status |-> 200, transport |-> 0 ]
    /\ UNCHANGED << transportMap, connectionStatus, ssePc, sseSid,
                    closeListener, clientOpen >>
    /\ UNCHANGED << toolVars, fnVars, procVars >>

HttpNext ==
    \/ \E c \in Conns, q \in QueryIds \cup {NoId}, g \in GeneratedIds :
           SseOpen(c, q, g)
    \/ \E c \in Conns : SseConnectResolved(c)
    \/ \E c \in Conns : SseConnectRejected(c)
    \/ \E c \in Conns : ClientCloseHandled(c)
    \/ \E c \in Conns : ClientCloseUnheard(c)
    \/ \E u \in PostIds \cup {NoId}, b \in Bodies, h \in {"ok", "throws"} :
           PostMessages(u, b, h)
    \/ Health

(***************************************************************************)
(* Tool parameters and request paths.                                      *)
(***************************************************************************)
\* Values of a required string parameter (zod has checked it is a string).
ParamValues == { <<>>, <<" ">>, <<"x">>, <<" ", "x">> }

IsSpace(ch) == ch \in { " ", "\t" }

RECURSIVE TrimStart(_)
TrimStart(s) ==
    IF s # <<>> /\ IsSpace(Head(s)) THEN TrimStart(Tail(s)) ELSE s

RECURSIVE TrimEnd(_)
TrimEnd(s) ==
    IF s # <<>> /\ IsSpace(s[Len(s)])
        THEN TrimEnd(SubSeq(s, 1, Len(s) - 1)) ELSE s

\* String.prototype.trim
Trim(s) == TrimStart(TrimEnd(s))

\* !p || typeof p !== 'string' || p.trim() === ''
MissingTrimmed(p) == p = <<>> \/ Trim(p) = <<>>

\* !p || typeof p !== 'string'
MissingPlain(p) == p = <<>>

Tools == { "list-repositories", "get-repository", "list-branches",
           "get-content", "get-license-info", "get-enterprise-stats" }

\* The parameter whose check fails first in the handler of tool t, or "" when
\* every check passes.
Validate(t, owner, repo, path) ==
    IF t \in { "get-license-info", "get-enterprise-stats" } THEN ""
    ELSE IF MissingTrimmed(owner) THEN "owner"
    ELSE IF t = "list-repositories" THEN ""
    ELSE IF MissingTrimmed(repo) THEN "repo"
    ELSE IF t # "get-content" THEN ""
    ELSE IF MissingPlain(path) THEN "path"
    ELSE ""

\* The path the domain API method of tool t passes to client.get.
DomainPath(t, owner, repo, path, isOrg) ==
    CASE t = "list-repositories" ->
            <<(IF isOrg THEN "orgs" ELSE "users"), "/">> \o owner \o <<"/", "repos">>
      [] t = "get-repository" ->
            <<"repos", "/">> \o owner \o <<"/">> \o repo
      [] t = "list-branches" ->
            <<"repos", "/">> \o owner \o <<"/">> \o repo \o <<"/", "branches">>
      [] t = "get-content" ->
            <<"repos", "/">> \o owner \o <<"/">> \o repo \o <<"/", "contents", "/">> \o path
      [] t = "get-license-info" -> <<"enterprise", "/", "settings", "/", "license">>
      [] t = "get-enterprise-stats" -> <<"enterprise", "/", "stats", "/", "all">>

\* Paths a direct caller of GitHubClient.request may pass.
DirectPaths == { <<"user">>, <<"/", "rate_limit">> }

(***************************************************************************)
(* GitHubClient.request: timeout and error translation.                    *)
(***************************************************************************)
\* RequestOptions.timeout: absent, or a number of ticks.
TimeoutOptions ==
    { [ given |-> FALSE, ms |-> 0 ] } \cup
    { [ given |-> TRUE, ms |-> n ] : n \in 0..MaxTime }

\* EffectiveTimeout that ignores the option of the request.
EffectiveTimeoutConfigOnly(opt, cfg) == cfg.timeout

\* const timeout = options.timeout || this.config.timeout
EffectiveTimeout(opt, cfg) ==
    IF opt.given /\ opt.ms # 0 THEN opt.ms ELSE cfg.timeout

\* HTTP statuses of upstream responses axios resolves (validateStatus: 2xx).
SuccessStatuses == { 200, 204 }
\* HTTP statuses of upstream responses axios rejects with error.response set.
ErrorStatuses == { 304, 400, 401, 403, 404, 408, 422, 429, 500, 503, 599 }

\* The message of an error: its kind and the values interpolated into it.
Message(kind, status, text, path, ms) ==
    [ kind |-> kind, status |-> status, text |-> text, path |-> path, ms |-> ms ]

NoMessage == Message("none", 0, "", <<>>, 0)

\* new GitHubError(message, status, data)
GitHubError(message, status, data) ==
    [ name |-> "GitHubError", message |-> message, status |-> status, data |-> data ]

NoError == [ name |-> "none", message |-> NoMessage, status |-> 0, data |-> "undefined" ]

\* What axios can reject with, or what else the try block can throw.
AxiosHttpError(status) ==
    [ isAxios |-> TRUE, code |-> "ERR_BAD_REQUEST", hasResponse |-> TRUE,
      status |-> status, data |-> "payload",
      message |-> "Request failed with status code" ]
AxiosTimeoutError ==
    [ isAxios |-> TRUE, code |-> "ECONNABORTED", hasResponse |-> FALSE,
      status |-> 0, data |-> "undefined", message |-> "timeout exceeded" ]
AxiosNetworkError ==
    [ isAxios |-> TRUE, code |-> "ERR_NETWORK", hasResponse |-> FALSE,
      status |-> 0, data |-> "undefined", message |-> "Network Error" ]
OtherError ==
    [ isAxios |-> FALSE, code |-> "", hasResponse |-> FALSE,
      status |-> 0, data |-> "undefined", message |-> "not an axios error" ]

\* StatusMessage whose server-error test is status > 500.
StatusMessageOffByOne(status, error, path) ==
    IF status = 401 THEN Message("auth", 0, "", <<>>, 0)
    ELSE IF status = 403 THEN Message("forbidden", 0, "", <<>>, 0)
    ELSE IF status = 404 THEN Message("notFound", 0, "", path, 0)
    ELSE IF status = 422 THEN Message("validation", 0, "", <<>>, 0)
    ELSE IF status > 500 THEN Message("server", 0, "", <<>>, 0)
    ELSE Message("generic", status, error.message, <<>>, 0)

\* The message chosen for an axios error that is not a timeout.
StatusMessage(status, error, path) ==
    IF status = 401 THEN Message("auth", 0, "", <<>>, 0)
    ELSE IF status = 403 THEN Message("forbidden", 0, "", <<>>, 0)
    ELSE IF status = 404 THEN Message("notFound", 0, "", path, 0)
    ELSE IF status = 422 THEN Message("validation", 0, "", <<>>, 0)
    ELSE IF status >= 500 THEN Message("server", 0, "", <<>>, 0)
    ELSE Message("generic", status, error.message, <<>>, 0)

\* TranslateError whose second catch branch rethrows what it caught.
TranslateErrorRethrows(error, path, timeout) ==
    IF error.isAxios
        THEN IF error.code = "ECONNABORTED"
                 THEN GitHubError(Message("timeout", 0, "", <<>>, timeout),
                                  408, "undefined")
             ELSE LET status == IF error.hasResponse THEN error.status ELSE 0
                      errorData == IF error.hasResponse THEN error.data
                                   ELSE "undefined"
                  IN  GitHubError(StatusMessage(status, error, path),
                                  status, errorData)
    ELSE [ name |-> "Error", message |-> Message("raw", 0, error.message, <<>>, 0),
           status |-> 0, data |-> "undefined" ]

\* The catch block of request: the GitHubError thrown for `error`.
TranslateError(error, path, timeout) ==
    IF error.isAxios
        THEN IF error.code = "ECONNABORTED"
                 THEN GitHubError(Message("timeout", 0, "", <<>>, timeout),
                                  408, "undefined")
             ELSE LET status == IF error.hasResponse THEN error.status ELSE 0
                      errorData == IF error.hasResponse THEN error.data
                                   ELSE "undefined"
                  IN  GitHubError(StatusMessage(status, error, path),
                                  status, errorData)
    ELSE GitHubError(Message("network", 0, error.message, <<>>, 0),
                     0, "undefined")

(***************************************************************************)
(* The tool handlers after their await of the domain API call.             *)
(***************************************************************************)
\* Shapes of the JSON an upstream response can carry: null, an empty array,
\* an array of well-formed objects, an array holding a null element, a
\* well-formed object, an object without its nested objects (owner, commit).
Payloads == { "null", "emptyList", "list", "badList", "object", "badObject" }

\* FormatEmpty without the test of the length.
FormatEmptyNullOnly(t, data) ==
    /\ t \in { "list-repositories", "list-branches" }
    /\ data = "null"

\* Whether the handler of tool t returns its 'nothing found' envelope.
FormatEmpty(t, data) ==
    /\ t \in { "list-repositories", "list-branches" }
    /\ data \in { "null", "emptyList" }

\* Whether reshaping `data` in the handler of tool t throws a TypeError
\* (formatRepository, formatBranch, formatContent, Array.prototype.map).
FormatThrows(t, data) ==
    CASE t \in { "list-repositories", "list-branches" } ->
            data \in { "badList", "object", "badObject" }
      [] t = "get-repository" -> data # "object"
      [] t = "get-content" -> data \in { "null", "badList" }
      [] OTHER -> FALSE

TypeError == [ name |-> "TypeError",
               message |-> Message("typeError", 0, "", <<>>, 0),
               status |-> 0, data |-> "undefined" ]

\* { content: [{ type: "text", text }], isError }; isError is FALSE when the
\* envelope has no isError key.
Envelope(isError, kind, param, message) ==
    [ present |-> TRUE, isError |-> isError, kind |-> kind, param |-> param,
      message |-> message ]

NoEnvelope ==
    [ present |-> FALSE, isError |-> FALSE, kind |-> "", param |-> "",
      message |-> NoMessage ]

\* The value thrown inside the try block of the handler, NoError when none:
\* the rejection of the domain call, or a TypeError of the reshaping.
Thrown(t, result) ==
    IF ~result.ok THEN result.error
    ELSE IF FormatThrows(t, result.data) THEN TypeError
    ELSE NoError

\* catch (error: any) { ...; return { ..., isError: true } }
HandlerCatch(error) ==
    [ pc |-> "returned",
      envelope |-> Envelope(TRUE, "error", "", error.message) ]

\* HandlerReturn with the reshaping of the result outside the try block: its
\* TypeError leaves the handler.
HandlerPropagates(t, result) ==
    IF Thrown(t, result).name = "TypeError"
        THEN [ pc |-> "threw", envelope |-> NoEnvelope ]
    ELSE IF Thrown(t, result).name # "none"
        THEN HandlerCatch(Thrown(t, result))
    ELSE [ pc |-> "returned",
           envelope |-> Envelope(FALSE,
                                 IF FormatEmpty(t, result.data) THEN "empty" ELSE "ok",
                                 "", NoMessage) ]

\* The handler of tool t from the settling of its domain call to its return.
HandlerReturn(t, result) ==
    IF Thrown(t, result).name # "none"
        THEN HandlerCatch(Thrown(t, result))
    ELSE [ pc |-> "returned",
           envelope |-> Envelope(FALSE,
                                 IF FormatEmpty(t, result.data) THEN "empty" ELSE "ok",
                                 "", NoMessage) ]

(***************************************************************************)
(* Tool invocations and client requests.                                   *)
(***************************************************************************)
NoCall == [ pc |-> "idle", tool |-> "", owner |-> <<>>, repo |-> <<>>,
            path |-> <<>>, isOrg |-> FALSE, session |-> 0 ]

NoTimeoutOption == [ given |-> FALSE, ms |-> 0 ]

NoReq == [ state |-> "none", path |-> <<>>, options |-> NoTimeoutOption,
           timeout |-> 0, elapsed |-> 0, origin |-> "" ]

NoOutcome == [ kind |-> "none", status |-> 0, payload |-> "" ]

\* request() from its entry to its await of axios(...).
NewRequest(path, opt, origin) ==
    [ state |-> "inflight", path |-> path, options |-> opt,
      timeout |-> EffectiveTimeout(opt, config), elapsed |-> 0,
      origin |-> origin ]

ToolInit ==
    /\ config \in [ timeout : 1..MaxTime ]
    /\ call = NoCall
    /\ envelope = NoEnvelope
    /\ req = NoReq
    /\ outcome = NoOutcome
    /\ lastError = NoError
    /\ requests = 0

\* The parameters the schema of tool t declares.
UsesRepo(t) == t \in { "get-repository", "list-branches", "get-content" }
UsesOwner(t) == UsesRepo(t) \/ t = "list-repositories"

\* The values a parameter takes: any string when the schema declares it, and
\* none (modelled as the empty string) when it does not.
ParamsOf(declared) == IF declared THEN ParamValues ELSE { <<>> }

\* A tool handler from its entry to its first await, or to its return when a
\* check of the parameters fails. The call came over the transport of SSE
\* connection `session`, or over stdio when that is 0.
Handle(t, owner, repo, path, isOrg, session) ==
    /\ call.pc # "awaiting"
    /\ req.state # "inflight"
    /\ outcome' = NoOutcome
    /\ lastError' = NoError
    /\ LET bad == Validate(t, owner, repo, path)
           c == [ pc |-> "awaiting", tool |-> t, owner |-> owner,
                  repo |-> repo, path |-> path, isOrg |-> isOrg,
                  session |-> session ]
       IN  IF bad # ""
               THEN /\ call' = [ c EXCEPT !.pc = "returned" ]
                    /\ envelope' = Envelope(TRUE, "invalid", bad, NoMessage)
                    /\ req' = NoReq
                    /\ requests' = 0
               ELSE /\ call' = c
                    /\ envelope' = NoEnvelope
                    /\ req' = NewRequest(DomainPath(t, owner, repo, path, isOrg),
                                         NoTimeoutOption, "tool")
                    /\ requests' = 1
    /\ UNCHANGED config

\* A tool is called with no HTTP session involved.
Invoke(t, owner, repo, path, isOrg) ==
    /\ Handle(t, owner, repo, path, isOrg, 0)
    /\ UNCHANGED << httpVars, fnVars, procVars >>

\* A caller other than the tools calls client.request(path, { timeout }).
DirectRequest(path, opt) ==
    /\ call.pc # "awaiting"
    /\ req.state # "inflight"
    /\ call' = NoCall
    /\ envelope' = NoEnvelope
    /\ outcome' = NoOutcome
    /\ lastError' = NoError
    /\ req' = NewRequest(path, opt, "direct")
    /\ requests' = 1
    /\ UNCHANGED config
    /\ UNCHANGED << httpVars, fnVars, procVars >>

\* One tick passes while the request is pending; axios lets no request stay
\* pending beyond its timeout.
Tick ==
    /\ req.state = "inflight"
    /\ req.elapsed < req.timeout
    /\ req' = [ req EXCEPT !.elapsed = @ + 1 ]
    /\ UNCHANGED << config, call, envelope, outcome, lastError, requests >>
    /\ UNCHANGED << httpVars, fnVars, procVars >>

\* Settle with one more attempt after a failed request.
SettleRetries(result, out) ==
    /\ outcome' = out
    /\ lastError' = result.error
    /\ IF ~result.ok /\ requests < 2
           THEN /\ req' = NewRequest(req.path, req.options, req.origin)
                /\ requests' = requests + 1
                /\ UNCHANGED << call, envelope >>
           ELSE /\ req' = [ req EXCEPT !.state = IF result.ok THEN "resolved"
                                                 ELSE "rejected" ]
                /\ requests' = requests
                /\ IF req.origin = "tool"
                       THEN LET h == HandlerReturn(call.tool, result)
                            IN  /\ call' = [ call EXCEPT !.pc = h.pc ]
                                /\ envelope' = h.envelope
                       ELSE UNCHANGED << call, envelope >>
    /\ UNCHANGED config
    /\ UNCHANGED << httpVars, fnVars, procVars >>

\* request() settles, and the handler awaiting it runs to its return.
Settle(result, out) ==
    /\ req' = [ req EXCEPT !.state = IF result.ok THEN "resolved" ELSE "rejected" ]
    /\ outcome' = out
    /\ lastError' = result.error
    /\ IF req.origin = "tool"
           THEN LET h == HandlerReturn(call.tool, result)
                IN  /\ call' = [ call EXCEPT !.pc = h.pc ]
                    /\ envelope' = h.envelope
           ELSE UNCHANGED << call, envelope >>
    /\ UNCHANGED << config, requests >>
    /\ UNCHANGED << httpVars, fnVars, procVars >>

Rejection(error) ==
    [ ok |-> FALSE, data |-> "",
      error |-> TranslateError(error, req.path, req.timeout) ]

\* return response.data
AxiosResolves(status, payload) ==
    /\ req.state = "inflight"
    /\ req.elapsed < req.timeout
    /\ Settle([ ok |-> TRUE, data |-> payload, error |-> NoError ],
              [ kind |-> "success", status |-> status, payload |-> payload ])

AxiosRejectsStatus(status) ==
    /\ req.state = "inflight"
    /\ req.elapsed < req.timeout
    /\ Settle(Rejection(AxiosHttpError(status)),
              [ kind |-> "http", status |-> status, payload |-> "" ])

AxiosTimesOut ==
    /\ req.state = "inflight"
    /\ req.elapsed = req.timeout
    /\ Settle(Rejection(AxiosTimeoutError),
              [ kind |-> "timeout", status |-> 0, payload |-> "" ])

AxiosNetworkFails ==
    /\ req.state = "inflight"
    /\ req.elapsed < req.timeout
    /\ Settle(Rejection(AxiosNetworkError),
              [ kind |-> "network", status |-> 0, payload |-> "" ])

OtherErrorThrown ==
    /\ req.state = "inflight"
    /\ req.elapsed < req.timeout
    /\ Settle(Rejection(OtherError),
              [ kind |-> "other", status |-> 0, payload |-> "" ])

(***************************************************************************)
(* JavaScript values, as far as the functions below tell them apart.       *)
(***************************************************************************)
Undefined == [ t |-> "undefined" ]
Null == [ t |-> "null" ]
Str(s) == [ t |-> "string", s |-> s ]
Num(n) == [ t |-> "number", n |-> n ]
Bool(b) == [ t |-> "boolean", b |-> b ]
\* An object; a key it does not have reads as undefined, and is held as such.
Obj(fields) == [ t |-> "object", f |-> fields ]

\* ToBoolean(x) is false.
Falsy(x) ==
    \/ x.t \in { "undefined", "null" }
    \/ x.t = "string" /\ x.s = ""
    \/ x.t = "number" /\ x.n = 0
    \/ x.t = "boolean" /\ x.b = FALSE

\* Reading a property of x throws a TypeError.
Nullish(x) == x.t \in { "undefined", "null" }

\* String(x) for the values above.
StringOf(x) ==
    CASE x.t = "undefined" -> "undefined"
      [] x.t = "null" -> "null"
      [] x.t = "string" -> x.s
      [] x.t = "number" -> (IF x.n = 0 THEN "0" ELSE "1")
      [] x.t = "boolean" -> (IF x.b THEN "true" ELSE "false")
      [] OTHER -> "[object Object]"

\* JSON.stringify followed by JSON.parse: the keys whose value is undefined
\* are gone, at every depth.
RECURSIVE JsonStringify(_)
JsonStringify(x) ==
    IF x.t # "object" THEN x
    ELSE Obj([ k \in { j \in DOMAIN x.f : x.f[j].t # "undefined" } |->
                   JsonStringify(x.f[k]) ])

(***************************************************************************)
(* formatRepository and the repositories it is given.                      *)
(***************************************************************************)
\* '설명 없음' of the source ("no description").
Placeholder == Str("no description")

Licenses ==
    { Obj([ key |-> Str("mit"), name |-> Str("MIT"), spdx_id |-> Str("MIT") ]),
      Obj([ key |-> Str("isc"), name |-> Str("ISC"), spdx_id |-> Str("ISC") ]) }

Owners ==
    { Obj([ login |-> Str("octocat"), id |-> Num(1), avatar_url |-> Str("a"),
            html_url |-> Str("h"), type |-> Str("User"),
            site_admin |-> Bool(FALSE) ]),
      Obj([ login |-> Str("org"), id |-> Num(0), avatar_url |-> Undefined,
            html_url |-> Str("h"), type |-> Str("Organization"),
            site_admin |-> Bool(FALSE) ]) }

\* What an upstream 200 can carry for a repository: GitHubRepository objects
\* (description, language and license may be null, and a key may be absent)
\* and objects without their owner.
Repositories ==
    { Obj([ id |-> Num(1), name |-> Str("Hello-World"),
            full_name |-> Str("octocat/Hello-World"), private |-> p,
            description |-> d, html_url |-> Str("h"), created_at |-> Str("c"),
            updated_at |-> Str("u"), pushed_at |-> pa, language |-> l,
            default_branch |-> Str("main"), stargazers_count |-> st,
            forks_count |-> Num(1), watchers_count |-> st,
            open_issues_count |-> Num(0), license |-> lic, owner |-> o,
            fork |-> Bool(FALSE) ]) :
        p \in { Bool(TRUE), Bool(FALSE) },
        d \in { Undefined, Null, Str(""), Str("text") },
        pa \in { Undefined, Str("p") },
        l \in { Null, Str("Go") },
        st \in { Num(0), Num(1) },
        lic \in { Undefined, Null } \cup Licenses,
        o \in { Undefined, Null } \cup Owners }

ThrewTypeError == [ threw |-> TRUE, value |-> Undefined ]
Returned(x) == [ threw |-> FALSE, value |-> x ]

\* formatRepository with ?? in the place of || for the description.
formatRepositoryNullish(repo) ==
    IF Nullish(repo) \/ Nullish(repo.f.owner) THEN ThrewTypeError
    ELSE Returned(Obj(
        [ id |-> repo.f.id,
          name |-> repo.f.name,
          full_name |-> repo.f.full_name,
          private |-> repo.f.private,
          description |-> IF Nullish(repo.f.description) THEN Placeholder
                          ELSE repo.f.description,
          html_url |-> repo.f.html_url,
          created_at |-> repo.f.created_at,
          updated_at |-> repo.f.updated_at,
          pushed_at |-> repo.f.pushed_at,
          language |-> repo.f.language,
          default_branch |-> repo.f.default_branch,
          stargazers_count |-> repo.f.stargazers_count,
          forks_count |-> repo.f.forks_count,
          watchers_count |-> repo.f.watchers_count,
          open_issues_count |-> repo.f.open_issues_count,
          license |-> IF Falsy(repo.f.license) THEN Null
                      ELSE repo.f.license.f.name,
          owner |-> Obj([ login |-> repo.f.owner.f.login,
                          id |-> repo.f.owner.f.id,
                          avatar_url |-> repo.f.owner.f.avatar_url,
                          html_url |-> repo.f.owner.f.html_url,
                          type |-> repo.f.owner.f.type ]) ]))

\* formatRepository passing the license object on as it is.
formatRepositoryRawLicense(repo) ==
    IF Nullish(repo) \/ Nullish(repo.f.owner) THEN ThrewTypeError
    ELSE Returned(Obj(
        [ id |-> repo.f.id,
          name |-> repo.f.name,
          full_name |-> repo.f.full_name,
          private |-> repo.f.private,
          description |-> IF Falsy(repo.f.description) THEN Placeholder
                          ELSE repo.f.description,
          html_url |-> repo.f.html_url,
          created_at |-> repo.f.created_at,
          updated_at |-> repo.f.updated_at,
          pushed_at |-> repo.f.pushed_at,
          language |-> repo.f.language,
          default_branch |-> repo.f.default_branch,
          stargazers_count |-> repo.f.stargazers_count,
          forks_count |-> repo.f.forks_count,
          watchers_count |-> repo.f.watchers_count,
          open_issues_count |-> repo.f.open_issues_count,
          license |-> repo.f.license,
          owner |-> Obj([ login |-> repo.f.owner.f.login,
                          id |-> repo.f.owner.f.id,
                          avatar_url |-> repo.f.owner.f.avatar_url,
                          html_url |-> repo.f.owner.f.html_url,
                          type |-> repo.f.owner.f.type ]) ]))

\* formatRepository(repo): the reshaped repository, or the TypeError of
\* reading a property of a missing repo or owner.
formatRepository(repo) ==
    IF Nullish(repo) \/ Nullish(repo.f.owner) THEN ThrewTypeError
    ELSE Returned(Obj(
        [ id |-> repo.f.id,
          name |-> repo.f.name,
          full_name |-> repo.f.full_name,
          private |-> repo.f.private,
          description |-> IF Falsy(repo.f.description) THEN Placeholder
                          ELSE repo.f.description,
          html_url |-> repo.f.html_url,
          created_at |-> repo.f.created_at,
          updated_at |-> repo.f.updated_at,
          pushed_at |-> repo.f.pushed_at,
          language |-> repo.f.language,
          default_branch |-> repo.f.default_branch,
          stargazers_count |-> repo.f.stargazers_count,
          forks_count |-> repo.f.forks_count,
          watchers_count |-> repo.f.watchers_count,
          open_issues_count |-> repo.f.open_issues_count,
          license |-> IF Falsy(repo.f.license) THEN Null
                      ELSE repo.f.license.f.name,
          owner |-> Obj([ login |-> repo.f.owner.f.login,
                          id |-> repo.f.owner.f.id,
                          avatar_url |-> repo.f.owner.f.avatar_url,
                          html_url |-> repo.f.owner.f.html_url,
                          type |-> repo.f.owner.f.type ]) ]))

\* The shape (one of Payloads) of a JSON value returned for a repository.
PayloadOf(data) ==
    IF data.t = "null" THEN "null"
    ELSE IF formatRepository(data).threw THEN "badObject"
    ELSE "object"

\* The get-repository handler after a successful await, given the upstream
\* JSON: its envelope and the JSON embedded in the envelope's text.
GetRepositoryResult(data) ==
    LET h == HandlerReturn("get-repository",
                           [ ok |-> TRUE, data |-> PayloadOf(data),
                             error |-> NoError ])
    IN  [ envelope |-> h.envelope,
          json |-> IF h.envelope.isError THEN Undefined
                   ELSE JsonStringify(formatRepository(data).value) ]

(***************************************************************************)
(* buildApiUrl. URLs and paths are sequences of characters.                *)
(***************************************************************************)
\* The longest tail of a path after its scheme-like prefix.
MaxTail == 3

RECURSIVE SeqsUpTo(_, _)
\* The sequences over S of length n or less.
SeqsUpTo(S, n) ==
    IF n = 0 THEN { << >> }
    ELSE LET shorter == SeqsUpTo(S, n - 1)
         IN  shorter \cup { Append(s, x) : s \in shorter, x \in S }

StartsWith(s, prefix) ==
    /\ Len(s) >= Len(prefix)
    /\ SubSeq(s, 1, Len(prefix)) = prefix

EndsWith(s, suffix) ==
    /\ Len(s) >= Len(suffix)
    /\ SubSeq(s, Len(s) - Len(suffix) + 1, Len(s)) = suffix

Http == << "h", "t", "t", "p" >>
HttpScheme == Http \o << ":", "/", "/" >>
HttpsScheme == Http \o << "s", ":", "/", "/" >>

\* The paths given to request: relative ones with any number of leading
\* slashes, absolute URLs, and relative ones whose first segment starts with
\* the letters http.
Paths ==
    { prefix \o tail :
        prefix \in { << >>, Http, HttpScheme, HttpsScheme },
        tail \in SeqsUpTo({ "/", "x" }, MaxTail) }

\* config.baseUrl: URLs the schema accepts, with and without trailing slashes.
BaseUrls ==
    { HttpsScheme \o << "g" >> \o tail :
        tail \in { << >>, << "/" >>, << "/", "v" >>, << "/", "v", "/" >>,
                   << "/", "/" >> } }

\* buildApiUrl(config, path), of which only config.baseUrl is read.
buildApiUrl(baseUrl, path) ==
    IF StartsWith(path, Http) THEN path
    ELSE LET normalizedPath == IF StartsWith(path, << "/" >>)
                                   THEN SubSeq(path, 2, Len(path)) ELSE path
             base == IF EndsWith(baseUrl, << "/" >>)
                         THEN SubSeq(baseUrl, 1, Len(baseUrl) - 1) ELSE baseUrl
         IN  base \o << "/" >> \o normalizedPath

(***************************************************************************)
(* GitHubClient.addQueryParams. URLs are sequences of characters; a key or *)
(* a value is appended to them as one element.                             *)
(***************************************************************************)
\* The most parameters of a params record.
MaxParams == 2

ParamKeys == { "a", "b", "c" }

\* Values of a parameter: the ones the filter tells apart, and strings with
\* and without a character that the serialisation escapes.
ParamJsValues ==
    { Undefined, Null, Bool(FALSE), Num(0), Str(""), Str("v"), Str("?") }

Range(s) == { s[i] : i \in 1..Len(s) }

\* Object.entries(params) of the records with MaxParams keys or less: their
\* [key, value] pairs in the order of the keys' insertion.
ParamEntries ==
    { e \in SeqsUpTo([ key : ParamKeys, value : ParamJsValues ], MaxParams) :
        \A i, j \in 1..Len(e) : i # j => e[i].key # e[j].key }

\* The params argument: not given, or a record with these entries.
NoParams == [ given |-> FALSE, entries |-> << >> ]
Params(entries) == [ given |-> TRUE, entries |-> entries ]

\* URLs without a query string, with an empty one, with a parameter, and with
\* a fragment.
QueryUrls ==
    { << "u" >>, << "u", "?" >>, << "u", "?", "q", "=", "1" >>,
      << "u", "#", "f" >> }

\* The application/x-www-form-urlencoded serialisation of a string.
UrlEncode(s) ==
    CASE s = "?" -> "%3F"
      [] OTHER -> s

RECURSIVE QueryString(_)
\* URLSearchParams.toString() of the appended pairs.
QueryString(pairs) ==
    IF pairs = << >> THEN << >>
    ELSE << UrlEncode(pairs[1].key), "=", UrlEncode(pairs[1].value) >>
         \o (IF Len(pairs) = 1 THEN << >> ELSE << "&" >>)
         \o QueryString(Tail(pairs))

\* The pairs the loop over Object.entries(params) appends to queryParams for
\* the entries it keeps.
Appended(kept) ==
    [ i \in 1..Len(kept) |->
        [ key |-> kept[i].key, value |-> StringOf(kept[i].value) ] ]

KeepDefined(e) == e.value.t \notin { "undefined", "null" }
KeepTruthy(e) == ~Falsy(e.value)

\* addQueryParams whose loop appends the truthy values only.
addQueryParamsTruthy(url, params) ==
    IF ~params.given THEN url
    ELSE LET queryString == QueryString(Appended(SelectSeq(params.entries, KeepTruthy)))
         IN  IF queryString = << >> THEN url
             ELSE IF "?" \in Range(url) THEN url \o << "&" >> \o queryString
             ELSE url \o << "?" >> \o queryString

\* addQueryParams(url, params).
addQueryParams(url, params) ==
    IF ~params.given THEN url
    ELSE LET queryString == QueryString(Appended(SelectSeq(params.entries, KeepDefined)))
         IN  IF queryString = << >> THEN url
             ELSE IF "?" \in Range(url) THEN url \o << "&" >> \o queryString
             ELSE url \o << "?" >> \o queryString

(***************************************************************************)
(* The headers GitHubClient.request gives to axios.                        *)
(***************************************************************************)
\* A header value is a sequence of the strings it is made of.
AcceptV3 == << "application/vnd.github.v3+json" >>
AcceptPreview == << "application/vnd.github.mercy-preview+json" >>
JsonContentType == << "application/json" >>

\* config.token (none, empty, given) and config.userAgent.
Tokens == { Undefined, Str(""), Str("secret") }
UserAgents == { "mcp-github-enterprise", "custom-agent" }

Methods == { "GET", "POST", "PUT", "PATCH", "DELETE" }

\* options.method: one of Methods, or "" when the caller gives none.
MethodOptions == Methods \cup { "" }

\* options.body: none, falsy values, a string and an object.
RequestBodies ==
    { Undefined, Null, Str(""), Str("text"), Obj([ message |-> Str("m") ]) }

NoHeaders == [ k \in {} |-> << >> ]

\* options.headers: none, and records over these names (getTopics gives the
\* preview media type as Accept).
HeaderOverrides ==
    { NoHeaders } \cup
    UNION { [ names -> { AcceptPreview, << "other" >> } ] :
              names \in (SUBSET { "Accept", "User-Agent", "Authorization",
                                  "Content-Type" }) \ { {} } }

\* { ...a, ...b }
Spread(a, b) ==
    [ k \in DOMAIN a \cup DOMAIN b |-> IF k \in DOMAIN b THEN b[k] ELSE a[k] ]

\* headers[name] = value
SetHeader(headers, name, value) ==
    [ k \in DOMAIN headers \cup { name } |->
        IF k = name THEN value ELSE headers[k] ]

\* The methods for which request sets the content type of a body.
BodyMethods == { "POST", "PUT", "PATCH" }

\* RequestConfig with the per-request headers spread before the defaults.
RequestConfigDefaultsLast(cfg, options) ==
    LET method == IF options.method = "" THEN "GET" ELSE options.method
        base == Spread(options.headers,
                       [ k \in { "Accept", "User-Agent" } |->
                           IF k = "Accept" THEN AcceptV3
                           ELSE << cfg.userAgent >> ])
        withAuth == IF ~Falsy(cfg.token)
                        THEN SetHeader(base, "Authorization",
                                       << "token ", cfg.token.s >>)
                    ELSE base
        data == options.body
        headers == IF ~Falsy(data) /\ method \in BodyMethods
                       THEN SetHeader(withAuth, "Content-Type", JsonContentType)
                   ELSE withAuth
    IN  [ method |-> method, headers |-> headers, data |-> data ]

\* RequestConfig with the Authorization header assigned before the
\* per-request headers are spread.
RequestConfigTokenFirst(cfg, options) ==
    LET method == IF options.method = "" THEN "GET" ELSE options.method
        defaults == [ k \in { "Accept", "User-Agent" } |->
                        IF k = "Accept" THEN AcceptV3
                        ELSE << cfg.userAgent >> ]
        withAuth == IF ~Falsy(cfg.token)
                        THEN SetHeader(defaults, "Authorization",
                                       << "token ", cfg.token.s >>)
                    ELSE defaults
        base == Spread(withAuth, options.headers)
        data == options.body
        headers == IF ~Falsy(data) /\ method \in BodyMethods
                       THEN SetHeader(base, "Content-Type", JsonContentType)
                   ELSE base
    IN  [ method |-> method, headers |-> headers, data |-> data ]

\* request() from its entry to its call of axios: the method, headers and
\* data it passes on.
RequestConfig(cfg, options) ==
    LET method == IF options.method = "" THEN "GET" ELSE options.method
        base == Spread([ k \in { "Accept", "User-Agent" } |->
                           IF k = "Accept" THEN AcceptV3
                           ELSE << cfg.userAgent >> ],
                       options.headers)
        withAuth == IF ~Falsy(cfg.token)
                        THEN SetHeader(base, "Authorization",
                                       << "token ", cfg.token.s >>)
                    ELSE base
        data == options.body
        headers == IF ~Falsy(data) /\ method \in BodyMethods
                       THEN SetHeader(withAuth, "Content-Type", JsonContentType)
                   ELSE withAuth
    IN  [ method |-> method, headers |-> headers, data |-> data ]

\* The requests of the client: every configuration with every options.
RequestInputs ==
    [ config : [ token : Tokens, userAgent : UserAgents ],
      options : [ method : MethodOptions, body : RequestBodies,
                  headers : HeaderOverrides ] ]

(***************************************************************************)
(* loadConfig and the parsing of the command line.                         *)
(***************************************************************************)
\* The most arguments of a command line.
MaxArgs == 2

DefaultBaseUrl == "https://api.github.com"

BaseUrlFlags == { "--github-enterprise-url", "--github-api-url", "--baseUrl" }

\* The strings z.string().url() accepts, of those that occur here.
UrlStrings ==
    { DefaultBaseUrl, "https://a", "https://b", "https://e1", "https://e2",
      "https://e3", "https://e4" }

\* process.env: each variable is unset, set to the empty string (as a line
\* NAME= of a .env file sets it) or set to a URL of its own.
Envs ==
    [ GITHUB_ENTERPRISE_URL : { Undefined, Str(""), Str("https://e1") },
      GITHUB_API_URL : { Undefined, Str(""), Str("https://e2") },
      GHE_API_URL : { Undefined, Str(""), Str("https://e3") },
      GITHUB_URL : { Undefined, Str(""), Str("https://e4") } ]

\* process.argv after the node binary and the script.
ArgLists ==
    SeqsUpTo(BaseUrlFlags \cup { "--token", "https://a", "https://b", "" },
             MaxArgs)

\* a || b
Or(a, b) == IF Falsy(a) THEN b ELSE a

\* options.config as the entry point fills it: no baseUrl key, or one.
NoOverrides == [ hasBaseUrl |-> FALSE, baseUrl |-> Undefined ]

RECURSIVE CliParse(_, _, _)
\* The loop of the entry point over the arguments from index i on: every
\* base-URL flag with a next argument assigns options.config.baseUrl and
\* skips that argument, as --token does.
CliParse(args, i, overrides) ==
    IF i > Len(args) THEN overrides
    ELSE IF args[i] \in BaseUrlFlags /\ i + 1 <= Len(args)
        THEN CliParse(args, i + 2,
                      [ hasBaseUrl |-> TRUE, baseUrl |-> Str(args[i + 1]) ])
    ELSE IF args[i] = "--token" /\ i + 1 <= Len(args)
        THEN CliParse(args, i + 2, overrides)
    ELSE CliParse(args, i + 1, overrides)

\* The loop of loadConfig over the arguments: the argument after the first
\* base-URL flag that has one.
ArgBaseUrl(args) ==
    LET found == { i \in 1..Len(args) :
                     args[i] \in BaseUrlFlags /\ i + 1 <= Len(args) }
    IN  IF found = {} THEN Undefined
        ELSE Str(args[(CHOOSE i \in found : \A j \in found : i <= j) + 1])

\* ConfigSchema.parse as to baseUrl: the default for a missing key, and a
\* ZodError for what is not a URL.
ParseBaseUrl(value) ==
    IF value.t = "undefined" THEN [ threw |-> FALSE, baseUrl |-> DefaultBaseUrl ]
    ELSE IF value.t = "string" /\ value.s \in UrlStrings
        THEN [ threw |-> FALSE, baseUrl |-> value.s ]
    ELSE [ threw |-> TRUE, baseUrl |-> "" ]

\* loadConfig(overrides) as to baseUrl.
loadConfig(overrides, env, args) ==
    LET baseUrl == Or(Or(Or(env.GITHUB_ENTERPRISE_URL, env.GITHUB_API_URL),
                         env.GHE_API_URL),
                      env.GITHUB_URL)
        environmentConfig == Or(ArgBaseUrl(args), baseUrl)
    IN  ParseBaseUrl(IF overrides.hasBaseUrl THEN overrides.baseUrl
                     ELSE environmentConfig)

\* The start of the process: the module of loadConfig evaluates
\* `defaultConfig = loadConfig()` when it is imported, then the entry point
\* parses the command line and startServer calls loadConfig(options.config).
StartConfig(env, args) ==
    LET defaultConfig == loadConfig(NoOverrides, env, args)
    IN  IF defaultConfig.threw THEN defaultConfig
        ELSE loadConfig(CliParse(args, 1, NoOverrides), env, args)

(***************************************************************************)
(* The functions above applied on their own, each to every argument.       *)
(***************************************************************************)
FnInit ==
    /\ fnOut = << >>
    /\ fnDone = FALSE
    /\ \/ fn = "formatRepository" /\ fnIn \in Repositories
       \/ fn = "get-repository" /\ fnIn \in Repositories \cup { Null }
       \/ fn = "buildApiUrl" /\ fnIn \in [ baseUrl : BaseUrls, path : Paths ]
       \/ fn = "addQueryParams" /\
            fnIn \in [ url : QueryUrls,
                       params : { NoParams } \cup
                                { Params(e) : e \in ParamEntries } ]
       \/ fn = "request" /\ fnIn \in RequestInputs
       \/ fn = "loadConfig" /\ fnIn \in [ env : Envs, args : ArgLists ]

\* The function being applied returns `result`.
Return(result) ==
    /\ ~fnDone
    /\ fnOut' = result
    /\ fnDone' = TRUE
    /\ UNCHANGED << fn, fnIn >>
    /\ UNCHANGED << httpVars, toolVars, procVars >>

CallFormatRepository ==
    /\ fn = "formatRepository"
    /\ Return(formatRepository(fnIn))

GetRepositoryReturns ==
    /\ fn = "get-repository"
    /\ Return(GetRepositoryResult(fnIn))

CallBuildApiUrl ==
    /\ fn = "buildApiUrl"
    /\ Return(buildApiUrl(fnIn.baseUrl, fnIn.path))

CallAddQueryParams ==
    /\ fn = "addQueryParams"
    /\ Return(addQueryParams(fnIn.url, fnIn.params))

RequestPrepared ==
    /\ fn = "request"
    /\ Return(RequestConfig(fnIn.config, fnIn.options))

ProcessStarts ==
    /\ fn = "loadConfig"
    /\ Return(StartConfig(fnIn.env, fnIn.args))

FnNext ==
    \/ CallFormatRepository
    \/ GetRepositoryReturns
    \/ CallBuildApiUrl
    \/ CallAddQueryParams
    \/ RequestPrepared
    \/ ProcessStarts

(***************************************************************************)
(* The server process: startServer, startHttpServer and the interrupt      *)
(* signal.                                                                 *)
(***************************************************************************)
Modes == { "stdio", "http" }

\* The process before startServer is called. sigint tells whether a listener
\* for SIGINT is installed, listening whether the HTTP listener is open, exit
\* how the process ended ("0" and "1" are exit codes, "SIGINT" is the death
\* by the signal itself) and cause what ended it.
NoProc ==
    [ pc |-> "notStarted", mode |-> "", sigint |-> FALSE, listening |-> FALSE,
      exit |-> "none", cause |-> "" ]

NoProcess == proc = NoProc

\* The process ends: process.exit(code), or the runtime ends it.
Exit(code, cause) ==
    [ proc EXCEPT !.pc = "exited", !.exit = code, !.cause = cause ]

Serving(mode) == proc.pc = "serving" /\ proc.mode = mode

\* The command line calls startServer(options): loadConfig returns, or it
\* throws and the catch of the command line calls process.exit(1).
StartServer(mode, configLoads) ==
    /\ proc.pc = "notStarted"
    /\ proc' = IF configLoads
                   THEN [ proc EXCEPT !.pc = "starting", !.mode = mode ]
               ELSE [ Exit("1", "config") EXCEPT !.mode = mode ]
    /\ UNCHANGED << httpVars, toolVars, fnVars >>

\* stdio: process.stdin.resume(), and server.connect(transport) is awaited.
StdioConnect ==
    /\ proc.pc = "starting"
    /\ proc.mode = "stdio"
    /\ proc' = [ proc EXCEPT !.pc = "connecting" ]
    /\ UNCHANGED << httpVars, toolVars, fnVars >>

\* server.connect resolves: process.on('SIGINT', ...) is called.
StdioConnected ==
    /\ proc.pc = "connecting"
    /\ proc' = [ proc EXCEPT !.pc = "serving", !.sigint = TRUE ]
    /\ UNCHANGED << httpVars, toolVars, fnVars >>

\* server.connect rejects: the catch block calls process.exit(1).
StdioConnectFails ==
    /\ proc.pc = "connecting"
    /\ proc' = Exit("1", "connect")
    /\ UNCHANGED << httpVars, toolVars, fnVars >>

\* http: startHttpServer calls app.listen(port, callback) and then
\* process.on('SIGINT', ...), without awaiting anything.
HttpListen ==
    /\ proc.pc = "starting"
    /\ proc.mode = "http"
    /\ proc' = [ proc EXCEPT !.pc = "listenPending", !.sigint = TRUE ]
    /\ UNCHANGED << httpVars, toolVars, fnVars >>

\* The listener is bound to the port.
ListenSucceeds ==
    /\ proc.pc = "listenPending"
    /\ proc' = [ proc EXCEPT !.pc = "serving", !.listening = TRUE ]
    /\ UNCHANGED << httpVars, toolVars, fnVars >>

\* The listener cannot be bound. The code registers no 'error' listener and
\* its listen callback takes no argument, so the outcome is that of the
\* Express version in use: either the server's 'error' event is uncaught and
\* the runtime ends the process with code 1, or Express hands the error to
\* the callback, which ignores it, and the process, with nothing left to
\* wait for, ends with code 0.
ListenFails(toCallback) ==
    /\ proc.pc = "listenPending"
    /\ proc' = Exit(IF toCallback THEN "0" ELSE "1", "listen")
    /\ UNCHANGED << httpVars, toolVars, fnVars >>

\* What SIGINT does to the process: the installed listener closes the HTTP
\* listener (in HTTP mode) and calls process.exit(0); with no listener
\* installed the signal's default action ends the process.
Interrupted ==
    IF proc.sigint
        THEN [ Exit("0", "interrupt") EXCEPT !.listening = FALSE ]
    ELSE Exit("SIGINT", "interrupt")

\* SIGINT arrives at the process.
Interrupt ==
    /\ proc.pc \notin { "notStarted", "exited" }
    /\ proc' = Interrupted
    /\ UNCHANGED << httpVars, toolVars, fnVars >>

(***************************************************************************)
(* The running server: tool calls over stdio or over an SSE session.       *)
(***************************************************************************)
\* The tool calls made of the running server.
ServedCalls ==
    [ tool : { "get-repository" }, owner : { <<>>, <<"x">> },
      repo : { <<"x">> }, path : { <<>> }, isOrg : { FALSE } ]

\* A tools/call message arrives over stdio.
StdioToolCall(a) ==
    /\ Serving("stdio")
    /\ Handle(a.tool, a.owner, a.repo, a.path, a.isOrg, 0)
    /\ UNCHANGED << httpVars, fnVars, procVars >>

\* A tools/call message is posted to a connected session: POST /messages
\* hands it to the session's transport, and the tool handler runs to its
\* first await.
SessionToolCall(urlSessionId, a) ==
    /\ Serving("http")
    /\ PostResult(urlSessionId, "method", "ok").status = 202
    /\ Respond(urlSessionId, "method", "ok")
    /\ Handle(a.tool, a.owner, a.repo, a.path, a.isOrg,
              PostResult(urlSessionId, "method", "ok").transport)
    /\ UNCHANGED << fnVars, procVars >>

\* The disconnect of a client whose listener also settles the request that
\* is in flight for its session.
SessionClosesAborting(c) ==
    /\ Serving("http")
    /\ clientOpen[c]
    /\ closeListener[c]
    /\ clientOpen' = [ clientOpen EXCEPT ![c] = FALSE ]
    /\ OnClose(c)
    /\ UNCHANGED << ssePc, sseSid, closeListener, lastPost >>
    /\ IF req.state = "inflight" /\ call.session = c
           THEN /\ req' = [ req EXCEPT !.state = "rejected" ]
                /\ call' = [ call EXCEPT !.pc = "returned" ]
                /\ UNCHANGED << config, envelope, outcome, lastError, requests >>
           ELSE UNCHANGED toolVars
    /\ UNCHANGED << fnVars, procVars >>

\* The client of a session disconnects while the server is running.
SessionCloses(c) ==
    /\ Serving("http")
    /\ ClientCloseHandled(c)

SessionOpens(c, q, generated) ==
    /\ Serving("http")
    /\ SseOpen(c, q, generated)

SessionConnects(c) ==
    /\ Serving("http")
    /\ SseConnectResolved(c)

SessionConnectFails(c) ==
    /\ Serving("http")
    /\ SseConnectRejected(c)

SessionClosesUnheard(c) ==
    /\ Serving("http")
    /\ ClientCloseUnheard(c)

\* The upstream request of the running server proceeds.
UpstreamTick == proc.pc = "serving" /\ Tick

UpstreamResolves(status, payload) ==
    /\ proc.pc = "serving"
    /\ AxiosResolves(status, payload)

UpstreamRejects(status) ==
    /\ proc.pc = "serving"
    /\ AxiosRejectsStatus(status)

UpstreamTimesOut == proc.pc = "serving" /\ AxiosTimesOut

ServerNext ==
    \/ \E mode \in Modes, configLoads \in BOOLEAN : StartServer(mode, configLoads)
    \/ StdioConnect
    \/ StdioConnected
    \/ StdioConnectFails
    \/ HttpListen
    \/ ListenSucceeds
    \/ \E toCallback \in BOOLEAN : ListenFails(toCallback)
    \/ Interrupt
    \/ \E a \in ServedCalls : StdioToolCall(a)
    \/ \E c \in Conns, q \in QueryIds \cup {NoId}, g \in GeneratedIds :
           SessionOpens(c, q, g)
    \/ \E c \in Conns : SessionConnects(c)
    \/ \E c \in Conns : SessionConnectFails(c)
    \/ \E c \in Conns : SessionCloses(c)
    \/ \E c \in Conns : SessionClosesUnheard(c)
    \/ \E u \in SessionIds, a \in ServedCalls : SessionToolCall(u, a)
    \/ UpstreamTick
    \/ UpstreamResolves(200, "object")
    \/ UpstreamRejects(404)
    \/ UpstreamTimesOut

(***************************************************************************)
(* Specifications.                                                         *)
(***************************************************************************)
\* No function is being applied on its own.
FnIdle ==
    /\ fn = ""
    /\ fnIn = << >>
    /\ fnOut = << >>
    /\ fnDone = FALSE

Init == HttpInit /\ ToolInit /\ FnIdle /\ NoProcess

ToolNext ==
    \/ \E t \in Tools :
         \E owner \in ParamsOf(UsesOwner(t)), repo \in ParamsOf(UsesRepo(t)),
            path \in ParamsOf(t = "get-content"),
            isOrg \in (IF t = "list-repositories" THEN BOOLEAN ELSE {FALSE}) :
           Invoke(t, owner, repo, path, isOrg)
    \/ \E path \in DirectPaths, opt \in TimeoutOptions : DirectRequest(path, opt)
    \/ Tick
    \/ \E status \in SuccessStatuses, payload \in Payloads :
           AxiosResolves(status, payload)
    \/ \E status \in ErrorStatuses : AxiosRejectsStatus(status)
    \/ AxiosTimesOut
    \/ AxiosNetworkFails
    \/ OtherErrorThrown

\* The HTTP/SSE transport server, started with one configuration.
HttpSpecInit == Init /\ config.timeout = MaxTime

HttpSpec == HttpSpecInit /\ [][HttpNext]_vars

\* The tool handlers over the GitHub client.
ToolSpec == Init /\ [][ToolNext]_vars

\* The pure functions of the client, the tool layer and the configuration.
FnSpecInit ==
    HttpInit /\ ToolInit /\ config.timeout = MaxTime /\ FnInit /\ NoProcess

FnSpec == FnSpecInit /\ [][FnNext]_vars

\* The server process from the call of startServer to its exit.
ServerSpec == HttpSpecInit /\ [][ServerNext]_vars

(***************************************************************************)
(* Properties of the tool handlers.                                        *)
(***************************************************************************)
\* A parameter value that is empty or holds only whitespace.
BlankValue(p) == \A i \in 1..Len(p) : IsSpace(p[i])

\* Whether the invocation in `call` has a required string parameter that is
\* empty or whitespace-only.
HasBlankRequired ==
    \/ UsesOwner(call.tool) /\ BlankValue(call.owner)
    \/ UsesRepo(call.tool) /\ BlankValue(call.repo)
    \/ call.tool = "get-content" /\ BlankValue(call.path)

\* C1: whenever a tool is invoked with a required string parameter that is
\* empty or whitespace-only, the handler has returned an envelope with
\* isError = true and has issued no upstream request.
C1_BlankParameterIsRejected ==
    (call.pc # "idle" /\ HasBlankRequired) =>
        /\ call.pc = "returned"
        /\ envelope.present /\ envelope.isError
        /\ requests = 0
        /\ req.state = "none"

\* Whether the request of the current invocation has settled.
Settled == req.state \in { "resolved", "rejected" }

\* C2: for each tool and every outcome of the domain call, the handler ends by
\* returning an envelope and never lets an exception leave it; the envelope
\* has isError = true exactly when a parameter check failed or an error was
\* thrown (by the domain call or while reshaping its result).
C2_HandlerAlwaysReturnsEnvelope ==
    /\ call.pc # "threw"
    /\ (req.origin = "tool" /\ Settled) => call.pc = "returned"
    /\ call.pc = "returned" =>
          /\ envelope.present
          /\ envelope.isError <=>
                \/ Validate(call.tool, call.owner, call.repo, call.path) # ""
                \/ outcome.kind \in { "http", "timeout", "network", "other" }
                \/ outcome.kind = "success"
                     /\ FormatThrows(call.tool, outcome.payload)

\* The domain call succeeded, the reshaping of its result threw a TypeError,
\* and the handler returned an error envelope carrying its message.
C2_Witness ==
    /\ call.pc = "returned"
    /\ envelope.present /\ envelope.isError
    /\ outcome.kind = "success"
    /\ FormatThrows(call.tool, outcome.payload)
    /\ envelope.message.kind = "typeError"

(***************************************************************************)
(* Properties of the session maps of the HTTP server.                      *)
(***************************************************************************)
\* Whether the step is a POST /messages request; its sessionId parameter and
\* its body are then the ones recorded in lastPost'.
PostStep ==
    /\ lastPost'.kind = "post"
    /\ \E h \in { "ok", "throws" } :
          PostMessages(lastPost'.sessionId, lastPost'.body, h)

SessionMapUnchanged ==
    /\ transportMap' = transportMap
    /\ connectionStatus' = connectionStatus

\* C3 as stated: every POST /messages whose session identifier is not a key of
\* transportMap is answered 404 and leaves both maps as they were, whatever
\* its body is.
C3_UnknownSessionAlways404 ==
    [][ ( /\ PostStep
          /\ lastPost'.sessionId # NoId
          /\ lastPost'.sessionId \notin DOMAIN transportMap )
        => ( lastPost'.status = 404 /\ SessionMapUnchanged ) ]_vars

\* C3 as amended: every POST /messages with a sessionId whose part before the
\* first '?' is not a key of transportMap is handed to no transport, leaves
\* both maps as they were, and is answered 404 when its body has a method
\* field and 400 when it has none.
C3_UnknownSessionRejected ==
    [][ ( /\ PostStep
          /\ lastPost'.sessionId # NoId
          /\ cleanSessionId(lastPost'.sessionId) \notin DOMAIN transportMap )
        => ( /\ lastPost'.status =
                    (IF lastPost'.body = "method" THEN 404 ELSE 400)
             /\ lastPost'.transport = 0
             /\ SessionMapUnchanged ) ]_vars

\* A POST with a method, for session id "b" that is never registered, was
\* answered 404 and handed to no transport.
C3_Witness ==
    /\ lastPost.kind = "post"
    /\ lastPost.sessionId = <<"b">>
    /\ lastPost.body = "method"
    /\ lastPost.status = 404
    /\ lastPost.transport = 0
    /\ transportMap # EmptyMap

SoleUser(c) == \A d \in Conns \ {c} : sseSid[d] # sseSid[c]

\* C5: once the client of an accepted SSE connection has disconnected and the
\* GET /sse handler has run to its end, the session is marked closed and its
\* identifier is no key of transportMap (stated for a session id no other
\* connection uses, so that no later registration is mistaken for it).
C5_DisconnectClosesSession ==
    \A c \in Conns :
        ( /\ ssePc[c] \in { "connected", "failed" }
          /\ ~clientOpen[c]
          /\ SoleUser(c) )
        => ( /\ sseSid[c] \notin DOMAIN transportMap
             /\ connectionStatus[sseSid[c]] = FALSE )

\* Whether connection c is registered and its client still attached.
OpenSession(c) == ssePc[c] \in { "connecting", "connected" } /\ clientOpen[c]

\* C6: no two open SSE connections are registered under the same session
\* identifier, and the identifier of an open connection stays bound to the
\* transport of that connection.
C6_NoSharedIdentifier ==
    /\ \A c, d \in Conns :
          (c # d /\ OpenSession(c) /\ OpenSession(d)) => sseSid[c] # sseSid[d]
    /\ \A c \in Conns :
          OpenSession(c) =>
              /\ sseSid[c] \in DOMAIN transportMap
              /\ transportMap[sseSid[c]] = c

\* Whether the step is the start of the GET /sse handler of connection c.
SseOpenStep(c, q) == \E g \in GeneratedIds : SseOpen(c, q, g)

\* C7: GET /sse uses the sessionId of the query when one is supplied and a
\* generated one otherwise, and in the state in which its transport is handed
\* to server.connect the maps already hold that identifier, mapped to that
\* transport, with connected flag true.
C7_RegisteredBeforeConnect ==
    [][ \A c \in Conns, q \in QueryIds \cup {NoId} :
          SseOpenStep(c, q) =>
            /\ ssePc'[c] = "connecting"
            /\ q # NoId => sseSid'[c] = q
            /\ q = NoId => sseSid'[c] \in GeneratedIds
            /\ sseSid'[c] \in DOMAIN transportMap'
            /\ transportMap'[sseSid'[c]] = c
            /\ sseSid'[c] \in DOMAIN connectionStatus'
            /\ connectionStatus'[sseSid'[c]] = TRUE ]_vars

\* A connection with a client-supplied id awaits server.connect, registered.
C7_Witness ==
    \E c \in Conns :
        /\ ssePc[c] = "connecting"
        /\ sseSid[c] \in QueryIds
        /\ sseSid[c] \in DOMAIN transportMap
        /\ transportMap[sseSid[c]] = c
        /\ connectionStatus[sseSid[c]]

\* Whether POST /messages treats session id s as connected.
TreatedConnected(s) ==
    /\ s \in DOMAIN transportMap
    /\ s \in DOMAIN connectionStatus
    /\ connectionStatus[s]

\* Whether connection c is the registered transport of its session.
Registered(c) ==
    /\ ssePc[c] # "none"
    /\ sseSid[c] \in DOMAIN transportMap
    /\ transportMap[sseSid[c]] = c

\* C8: a session moves no-session -> connecting -> connected -> closed only:
\* it is not treated as connected before server.connect has completed for its
\* transport, and a connection whose session was closed is never registered
\* as connected again.
C8_SessionLifecycle ==
    [][ /\ \A s \in SessionIds :
              TreatedConnected(s)' => ssePc'[transportMap'[s]] = "connected"
        /\ \A c \in Conns :
              (ssePc[c] # "none" /\ ~Registered(c)) => ~Registered(c)' ]_vars

(***************************************************************************)
(* Properties of GitHubClient.request.                                     *)
(***************************************************************************)
\* The message class the specification fixes for a status.
ExpectedClass(status) ==
    CASE status = 401 -> "auth"
      [] status = 403 -> "forbidden"
      [] status = 404 -> "notFound"
      [] status = 422 -> "validation"
      [] status \in 500..599 -> "server"
      [] OTHER -> "generic"

\* C9: for every upstream response with status 401, 403, 404, 422 or 5xx the
\* request raises a GitHubError with exactly that status and the message of
\* its class; for 404 the message holds the path passed to request.
C9_StatusSpecificError ==
    ( /\ outcome.kind = "http"
      /\ outcome.status \in { 401, 403, 404, 422 } \cup 500..599 )
    => ( /\ req.state = "rejected"
         /\ lastError.name = "GitHubError"
         /\ lastError.status = outcome.status
         /\ lastError.message.kind = ExpectedClass(outcome.status)
         /\ lastError.message.kind # "generic"
         /\ outcome.status = 404 => lastError.message.path = req.path )

\* A 404 was translated for a request of a tool, with its path in the message.
C9_Witness ==
    /\ outcome.kind = "http"
    /\ outcome.status = 404
    /\ lastError.status = 404
    /\ lastError.message.path = req.path
    /\ req.path # <<>>
    /\ req.origin = "tool"

\* C10 as stated: the effective timeout is the option of the request when one
\* is given (0 meaning no timeout, as for axios) and the configured default
\* otherwise; a request never stays pending beyond it, one that reaches it
\* raises a GitHubError with status 408, and status 408 is raised for nothing
\* but a timeout.
C10_TimeoutAs408Only ==
    LET given == req.options.given
        eff == IF given THEN req.options.ms ELSE config.timeout
        unlimited == given /\ req.options.ms = 0
    IN  req.state # "none" =>
          /\ ~unlimited => req.elapsed <= eff
          /\ (Settled /\ ~unlimited /\ req.elapsed = eff) => lastError.status = 408
          /\ outcome.kind = "timeout" => ~unlimited
          /\ lastError.status = 408 => outcome.kind = "timeout"

\* C10 as amended: the effective timeout is the option of the request when
\* one is given and is not 0, and the configured default otherwise; a request
\* never stays pending beyond it, and one that reaches it raises a GitHubError
\* with status 408 and the timeout message naming that timeout. The timeout
\* message is raised for nothing but a timeout; status 408 is raised for a
\* timeout and for an upstream response whose own status is 408.
C10_TimeoutRaises408 ==
    LET eff == IF req.options.given /\ req.options.ms > 0
                   THEN req.options.ms ELSE config.timeout
    IN  req.state # "none" =>
          /\ req.elapsed <= eff
          /\ (Settled /\ req.elapsed = eff) =>
                /\ outcome.kind = "timeout"
                /\ lastError.status = 408
                /\ lastError.message.kind = "timeout"
                /\ lastError.message.ms = eff
          /\ lastError.message.kind = "timeout" => outcome.kind = "timeout"
          /\ lastError.status = 408 =>
                \/ outcome.kind = "timeout"
                \/ outcome.kind = "http" /\ outcome.status = 408

\* A request with a timeout option below the configured default timed out.
C10_Witness ==
    /\ req.state = "rejected"
    /\ outcome.kind = "timeout"
    /\ req.options.given
    /\ req.options.ms > 0
    /\ req.options.ms < config.timeout
    /\ req.elapsed = req.options.ms
    /\ lastError.status = 408

\* The statuses for which request has a message of their own.
OwnMessageStatuses == { 401, 403, 404, 422 } \cup 500..599

\* C11: every failure of request raises a GitHubError and nothing else; its
\* status is 0 for a network failure and for a failure that is not an HTTP
\* one; it carries the payload of the upstream response as data when there is
\* a response; and for every HTTP status other than 401, 403, 404, 422 and
\* 5xx its message is the generic one, holding the status and the text of the
\* underlying error.
C11_OneErrorKind ==
    /\ outcome.kind \in { "http", "timeout", "network", "other" } =>
          /\ req.state = "rejected"
          /\ lastError.name = "GitHubError"
    /\ outcome.kind \in { "network", "other" } =>
          /\ lastError.status = 0
          /\ lastError.data = "undefined"
    /\ outcome.kind = "http" =>
          /\ lastError.status = outcome.status
          /\ lastError.data = AxiosHttpError(outcome.status).data
    /\ (outcome.kind = "http" /\ outcome.status \notin OwnMessageStatuses) =>
          lastError.message = Message("generic", outcome.status,
                                      AxiosHttpError(outcome.status).message,
                                      <<>>, 0)
    /\ outcome.kind = "success" => lastError = NoError

\* An upstream 429 was raised with the generic message and the payload.
C11_Witness ==
    /\ req.state = "rejected"
    /\ outcome.kind = "http"
    /\ outcome.status = 429
    /\ lastError.name = "GitHubError"
    /\ lastError.status = 429
    /\ lastError.message.kind = "generic"
    /\ lastError.message.status = 429
    /\ lastError.data = "payload"

\* C12: nothing is retried: an invocation of a tool issues at most one
\* upstream request, and once that request has failed no request is pending
\* or issued for the invocation.
C12_NoRetry ==
    /\ requests <= 1
    /\ call.pc = "awaiting" => (requests = 1 /\ req.state = "inflight")
    /\ call.pc = "returned" => req.state # "inflight"
    /\ lastError # NoError => (req.state = "rejected" /\ requests = 1)

\* A tool returned its error envelope after its one request failed.
C12_Witness ==
    /\ call.pc = "returned"
    /\ req.origin = "tool"
    /\ req.state = "rejected"
    /\ lastError.name = "GitHubError"
    /\ envelope.isError
    /\ requests = 1

\* C13: list-repositories called with a valid owner whose upstream call
\* returns no repository returns an envelope without the error flag, with the
\* text saying that no repository was found.
C13_EmptyListIsNotAnError ==
    ( /\ call.tool = "list-repositories"
      /\ call.pc = "returned"
      /\ outcome.kind = "success"
      /\ outcome.payload = "emptyList" )
    => ( /\ ~MissingTrimmed(call.owner)
         /\ envelope.present
         /\ ~envelope.isError
         /\ envelope.kind = "empty" )

\* list-repositories of an organization got an empty array and returned.
C13_Witness ==
    /\ call.tool = "list-repositories"
    /\ call.isOrg
    /\ ~MissingTrimmed(call.owner)
    /\ call.pc = "returned"
    /\ outcome.kind = "success"
    /\ outcome.payload = "emptyList"
    /\ envelope.present
    /\ ~envelope.isError
    /\ envelope.kind = "empty"

(***************************************************************************)
(* Properties of formatRepository and of get-repository.                   *)
(***************************************************************************)
\* The fields formatRepository copies.
CopiedFields ==
    { "id", "name", "full_name", "private", "html_url", "created_at",
      "updated_at", "pushed_at", "language", "default_branch",
      "stargazers_count", "forks_count", "watchers_count",
      "open_issues_count" }

OwnerFields == { "login", "id", "avatar_url", "html_url", "type" }

Formatted == fn = "formatRepository" /\ fnDone /\ ~fnOut.threw

\* C14 as stated: formatRepository returns every field it lists with the
\* value of the input, except description, which is the placeholder exactly
\* when the description of the input is null or absent.
C14_FieldsUnchanged ==
    Formatted =>
      /\ \A k \in DOMAIN fnOut.value.f \ { "description" } :
            fnOut.value.f[k] = fnIn.f[k]
      /\ fnOut.value.f.description =
            IF fnIn.f.description \in { Null, Undefined } THEN Placeholder
            ELSE fnIn.f.description

\* C14 as amended: formatRepository returns id, name, full_name, private,
\* html_url, the three dates, language, default_branch and the four counts
\* with the value of the input; description is the placeholder exactly when
\* the description of the input is null, absent or the empty string, and the
\* input's otherwise; license is the name of the input's license object, and
\* null when the input has none; owner holds the login, id, avatar_url,
\* html_url and type of the input's owner and nothing else.
C14_FormatRepositoryFields ==
    Formatted =>
      /\ DOMAIN fnOut.value.f = CopiedFields \cup { "description", "license", "owner" }
      /\ \A k \in CopiedFields : fnOut.value.f[k] = fnIn.f[k]
      /\ fnOut.value.f.description =
            IF fnIn.f.description \in { Null, Undefined, Str("") }
                THEN Placeholder
            ELSE fnIn.f.description
      /\ fnOut.value.f.license =
            IF fnIn.f.license \in { Null, Undefined } THEN Null
            ELSE fnIn.f.license.f.name
      /\ DOMAIN fnOut.value.f.owner.f = OwnerFields
      /\ \A k \in OwnerFields : fnOut.value.f.owner.f[k] = fnIn.f.owner.f[k]

\* A repository with an empty description and a license was formatted.
C14_Witness ==
    /\ Formatted
    /\ fnIn.f.description = Str("")
    /\ fnOut.value.f.description = Placeholder
    /\ fnIn.f.license \in Licenses
    /\ fnOut.value.f.license = Str("MIT")
    /\ fnOut.value.f.language = Null

\* C15: get-repository whose upstream call succeeds with a repository returns
\* an envelope without the error flag, and the license of the JSON in its
\* text is the name of the upstream license object, and null when the
\* upstream repository has no license.
C15_LicenseIsItsName ==
    ( /\ fn = "get-repository"
      /\ fnDone
      /\ fnIn.t = "object"
      /\ fnIn.f.owner.t = "object" )
    => ( /\ fnOut.envelope.present
         /\ ~fnOut.envelope.isError
         /\ fnOut.json.t = "object"
         /\ "license" \in DOMAIN fnOut.json.f
         /\ fnOut.json.f.license =
               IF fnIn.f.license.t = "object" THEN fnIn.f.license.f.name
               ELSE Null )

\* get-repository returned a repository whose license is MIT.
C15_Witness ==
    /\ fn = "get-repository"
    /\ fnDone
    /\ fnIn.t = "object"
    /\ fnIn.f.license.t = "object"
    /\ fnIn.f.license.f.name = Str("MIT")
    /\ ~fnOut.envelope.isError
    /\ fnOut.json.f.license = Str("MIT")

(***************************************************************************)
(* Properties of the headers of a request.                                 *)
(***************************************************************************)
Prepared == fn = "request" /\ fnDone

\* C16 as stated: whatever the header overrides and the configuration, the
\* request carries Accept: application/vnd.github.v3+json and a User-Agent,
\* and it carries Authorization with the configured token exactly when a
\* token is configured.
C16_HeadersAlwaysSet ==
    Prepared =>
      LET h == fnOut.headers
          token == fnIn.config.token
      IN  /\ "Accept" \in DOMAIN h
          /\ h["Accept"] = AcceptV3
          /\ "User-Agent" \in DOMAIN h
          /\ ~Falsy(token) <=>
                ( /\ "Authorization" \in DOMAIN h
                  /\ h["Authorization"] = << "token ", StringOf(token) >> )

\* C16 as amended: every request carries an Accept and a User-Agent header,
\* each with the value the per-request headers give it and, when they give
\* none, application/vnd.github.v3+json and the configured user agent; when a
\* non-empty token is configured the request carries Authorization with that
\* token, and otherwise it carries the Authorization of the per-request
\* headers or none.
C16_HeadersWithOverrides ==
    Prepared =>
      LET h == fnOut.headers
          o == fnIn.options.headers
          token == fnIn.config.token
      IN  /\ { "Accept", "User-Agent" } \subseteq DOMAIN h
          /\ h["Accept"] = IF "Accept" \in DOMAIN o THEN o["Accept"]
                           ELSE AcceptV3
          /\ h["User-Agent"] = IF "User-Agent" \in DOMAIN o THEN o["User-Agent"]
                               ELSE << fnIn.config.userAgent >>
          /\ IF token \notin { Undefined, Str("") }
                 THEN /\ "Authorization" \in DOMAIN h
                      /\ h["Authorization"] = << "token ", token.s >>
             ELSE /\ "Authorization" \in DOMAIN h <=> "Authorization" \in DOMAIN o
                  /\ "Authorization" \in DOMAIN h =>
                        h["Authorization"] = o["Authorization"]

\* A request that overrides Accept alone, as getTopics does, was prepared
\* with a configured token.
C16_Witness ==
    /\ Prepared
    /\ fnIn.options.method = ""
    /\ DOMAIN fnIn.options.headers = { "Accept" }
    /\ fnIn.options.headers["Accept"] = AcceptPreview
    /\ fnIn.config.token = Str("secret")
    /\ fnOut.headers["Accept"] = AcceptPreview
    /\ fnOut.headers["User-Agent"] = << fnIn.config.userAgent >>
    /\ fnOut.headers["Authorization"] = << "token ", "secret" >>

\* C17: a request with a body and the method POST, PUT, PATCH or DELETE is
\* given Content-Type: application/json; a request without a body, or with
\* the method GET, is given no Content-Type by request.
C17_ContentTypeForBody ==
    Prepared =>
      LET h == fnOut.headers
          o == fnIn.options.headers
          body == fnIn.options.body
      IN  /\ ( /\ ~Falsy(body)
               /\ fnOut.method \in { "POST", "PUT", "PATCH", "DELETE" } )
             => ( /\ "Content-Type" \in DOMAIN h
                  /\ h["Content-Type"] = JsonContentType )
          /\ ( /\ body \in { Undefined, Null } \/ fnOut.method = "GET"
               /\ "Content-Type" \notin DOMAIN o )
             => "Content-Type" \notin DOMAIN h

(***************************************************************************)
(* Properties of the URL of a request.                                     *)
(***************************************************************************)
IsAbsoluteUrl(path) ==
    StartsWith(path, HttpScheme) \/ StartsWith(path, HttpsScheme)

RECURSIVE StripLeadingSlashes(_)
StripLeadingSlashes(s) ==
    IF s # << >> /\ Head(s) = "/" THEN StripLeadingSlashes(Tail(s)) ELSE s

RECURSIVE StripTrailingSlashes(_)
StripTrailingSlashes(s) ==
    IF s # << >> /\ s[Len(s)] = "/"
        THEN StripTrailingSlashes(SubSeq(s, 1, Len(s) - 1))
    ELSE s

\* C18: buildApiUrl returns an absolute URL as it is, and for every other
\* path the base URL and the path joined by exactly one '/', whatever the
\* slashes at the end of the base and at the start of the path; a relative
\* path is never returned without the base URL.
C18_JoinedByOneSlash ==
    (fn = "buildApiUrl" /\ fnDone) =>
      IF IsAbsoluteUrl(fnIn.path) THEN fnOut = fnIn.path
      ELSE fnOut = StripTrailingSlashes(fnIn.baseUrl) \o << "/" >>
                   \o StripLeadingSlashes(fnIn.path)

\* C19: addQueryParams appends exactly the parameters whose value is neither
\* null nor undefined (false, 0 and the empty string included), in their
\* order, as key=value pairs separated by '&'; it returns the URL as it is
\* when no parameter is left, and puts '?' before the pairs when the URL has
\* no '?' yet and '&' when it has one.
C19_QueryParamsAppended ==
    (fn = "addQueryParams" /\ fnDone) =>
      LET url == fnIn.url
          entries == IF fnIn.params.given THEN fnIn.params.entries ELSE << >>
          Present(e) == e.value # Null /\ e.value # Undefined
          left == SelectSeq(entries, Present)
          rest == SubSeq(fnOut, Len(url) + 1, Len(fnOut))
      IN  /\ StartsWith(fnOut, url)
          /\ left = << >> => fnOut = url
          /\ left # << >> =>
                /\ Len(rest) = 4 * Len(left)
                /\ rest[1] = IF \E i \in 1..Len(url) : url[i] = "?" THEN "&"
                             ELSE "?"
                /\ \A i \in 1..Len(left) :
                      /\ rest[4 * i - 2] = left[i].key
                      /\ rest[4 * i - 1] = "="
                      /\ rest[4 * i] = UrlEncode(StringOf(left[i].value))
                      /\ i < Len(left) => rest[4 * i + 1] = "&"

\* A null parameter was dropped and a false one appended with '&' to a URL
\* that had a query string.
C19_Witness ==
    /\ fn = "addQueryParams"
    /\ fnDone
    /\ fnIn.url = << "u", "?", "q", "=", "1" >>
    /\ fnIn.params = Params(<< [ key |-> "a", value |-> Null ],
                               [ key |-> "b", value |-> Bool(FALSE) ] >>)
    /\ fnOut = << "u", "?", "q", "=", "1", "&", "b", "=", "false" >>

\* C20: the base URL of the loaded configuration is the value of a base-URL
\* flag of the command line when there is one; otherwise that of the first
\* variable that is set among GITHUB_ENTERPRISE_URL, GITHUB_API_URL,
\* GHE_API_URL and GITHUB_URL; and https://api.github.com when none is set.
\* A variable counts as set when its value is not empty.
C20_BaseUrlPriority ==
    (fn = "loadConfig" /\ fnDone) =>
      LET args == fnIn.args
          env == << fnIn.env.GITHUB_ENTERPRISE_URL, fnIn.env.GITHUB_API_URL,
                    fnIn.env.GHE_API_URL, fnIn.env.GITHUB_URL >>
          flagValues == { args[i + 1] : i \in { j \in 1..(Len(args) - 1) :
                                                 args[j] \in BaseUrlFlags } }
          set == { i \in 1..4 : env[i] \notin { Undefined, Str("") } }
          first == CHOOSE i \in set : \A j \in set : i <= j
      IN  IF flagValues # {} /\ flagValues \subseteq UrlStrings
              THEN ~fnOut.threw /\ fnOut.baseUrl \in flagValues
          ELSE IF \A i \in 1..Len(args) : args[i] \notin BaseUrlFlags
              THEN /\ ~fnOut.threw
                   /\ fnOut.baseUrl = IF set # {} THEN env[first].s
                                      ELSE DefaultBaseUrl
          ELSE TRUE


(***************************************************************************)
(* Further properties of the session maps of the HTTP server.              *)
(***************************************************************************)
\* Whether the step is a GET /health request.
HealthStep == lastPost'.kind = "health" /\ Health

\* C22: no POST /messages changes the state of a session, whatever its
\* outcome (400 for a missing session id or method, 404 for an unknown
\* session, 400 for a closed one, handed to the transport, 500 after the
\* transport threw): transportMap and connectionStatus are after the request
\* what they were before it, as are the connections; nor does GET /health
\* change them.
C22_PostAndHealthKeepSessions ==
    [][ (PostStep \/ HealthStep) =>
          /\ SessionMapUnchanged
          /\ UNCHANGED << ssePc, sseSid, closeListener, clientOpen >>
          /\ PostStep =>
                lastPost'.status \in { 202, 400, 404, 500 } ]_vars

\* The transport of a registered session threw on a POST, which was answered
\* 500, and the session is registered and connected as before.
C22_Witness ==
    /\ lastPost.kind = "post"
    /\ lastPost.status = 500
    /\ lastPost.transport # 0
    /\ cleanSessionId(lastPost.sessionId) \in DOMAIN transportMap
    /\ transportMap[cleanSessionId(lastPost.sessionId)] = lastPost.transport
    /\ connectionStatus[cleanSessionId(lastPost.sessionId)]

\* C25: every key of transportMap is a key of connectionStatus and its
\* connected flag is true, so a POST /messages that finds a transport for its
\* session id is never rejected as 'connection closed': no request that
\* names a session and a method is answered 400.
C25_TransportImpliesConnected ==
    /\ \A s \in DOMAIN transportMap :
          /\ s \in DOMAIN connectionStatus
          /\ connectionStatus[s] = TRUE
    /\ ~( /\ lastPost.kind = "post"
          /\ lastPost.sessionId # NoId
          /\ lastPost.body = "method"
          /\ lastPost.status = 400 )

\* One session has been closed by its listener while another is registered.
C25_Witness ==
    \E c, d \in Conns :
        /\ ssePc[c] = "connected" /\ ~clientOpen[c]
        /\ sseSid[c] \in DOMAIN connectionStatus
        /\ connectionStatus[sseSid[c]] = FALSE
        /\ sseSid[c] \notin DOMAIN transportMap
        /\ sseSid[d] \in DOMAIN transportMap
        /\ transportMap[sseSid[d]] = d

\* What the two maps hold for session id s.
Entry(s) ==
    [ transport |-> IF s \in DOMAIN transportMap THEN transportMap[s] ELSE 0,
      flag |-> IF s \notin DOMAIN connectionStatus THEN "absent"
               ELSE IF connectionStatus[s] THEN "true" ELSE "false" ]

\* Whether the step is one of a connection whose session id is s: the start
\* of its GET /sse handler or the disconnect of its client.
StepOfSession(s) ==
    \E c \in Conns :
        /\ sseSid'[c] = s
        /\ \/ ssePc[c] = "none" /\ ssePc'[c] = "connecting"
           \/ clientOpen[c] /\ ~clientOpen'[c]

C26_OlderCloseKeepsNewer ==
    [][ \A c, d \in Conns :
          ( /\ c # d
            /\ sseSid[c] = sseSid[d]
            /\ sseSid[c] \in QueryIds
            /\ OpenSession(c)
            /\ Registered(c)
            /\ ClientCloseHandled(d) )
          => ( /\ Registered(c)'
               /\ TreatedConnected(sseSid[c])' ) ]_vars

\* C27: when server.connect rejects in GET /sse the session is not left
\* registered: its identifier is no key of transportMap bound to the failed
\* transport, its connected flag is not true on account of that connection,
\* and no POST is handed to the failed transport.
C27_FailedConnectNotRegistered ==
    /\ \A c \in Conns :
          ssePc[c] = "failed" =>
              ~( /\ sseSid[c] \in DOMAIN transportMap
                 /\ transportMap[sseSid[c]] = c )
    /\ ( lastPost.kind = "post" /\ lastPost.status = 202 )
          => ssePc[lastPost.transport] # "failed"


(***************************************************************************)
(* The Authorization header and the per-request headers.                   *)
(***************************************************************************)
\* C28: when a token is configured the per-request header overrides can
\* neither replace nor remove the Authorization header: for every overrides
\* record the request carries Authorization 'token <configured token>', and
\* the Authorization of the overrides is carried only when no token is
\* configured.
C28_TokenNotOverridable ==
    Prepared =>
      LET h == fnOut.headers
          token == fnIn.config.token
          overrides == fnIn.options.headers
      IN  /\ ~Falsy(token) =>
                /\ "Authorization" \in DOMAIN h
                /\ h["Authorization"] = << "token ", token.s >>
          /\ ( /\ "Authorization" \in DOMAIN overrides
               /\ "Authorization" \in DOMAIN h
               /\ h["Authorization"] = overrides["Authorization"] )
             => Falsy(token)
          /\ ( Falsy(token) /\ "Authorization" \notin DOMAIN overrides )
             => "Authorization" \notin DOMAIN h

\* A request of a client with a token whose per-request headers give an
\* Authorization of their own, sent with the configured token.
C28_Witness ==
    /\ Prepared
    /\ fnIn.config.token = Str("secret")
    /\ "Authorization" \in DOMAIN fnIn.options.headers
    /\ fnIn.options.headers["Authorization"] = << "other" >>
    /\ fnOut.headers["Authorization"] = << "token ", "secret" >>


(***************************************************************************)
(* Properties of the server process.                                       *)
(***************************************************************************)
\* C21: in both transport modes the process exits with code 0 when the
\* interrupt signal arrives at any time after startServer was called (in
\* HTTP mode with the HTTP listener closed), and it exits with code 1
\* whenever the server fails to start or to connect its transport (the
\* configuration does not load, the stdio connect fails, the HTTP listen
\* fails).
C21_ExitCodes ==
    proc.pc = "exited" =>
        /\ proc.cause = "interrupt" =>
              /\ proc.exit = "0"
              /\ ~proc.listening
        /\ proc.cause \in { "config", "connect", "listen" } =>
              proc.exit = "1"

\* Whether the step is the disconnect of the client of connection c.
Disconnects(c) == clientOpen[c] /\ ~clientOpen'[c]

\* The outcomes a request settles with.
OwnOutcomes == { "success", "http", "timeout", "network", "other" }

\* C24: the close of a session (its client disconnects) does not abort the
\* upstream request in flight for that session: the step changes the session
\* maps only and leaves the request, its invocation and the process as they
\* were; the request can still proceed; and whenever a request leaves the
\* in-flight state it does so with an outcome of its own (a response, a
\* failure or its timeout).
C24_CloseLeavesRequest ==
    [][ /\ \A c \in Conns :
              ( Disconnects(c) /\ req.state = "inflight" /\ call.session = c )
              => /\ UNCHANGED << toolVars, procVars >>
                 /\ UNCHANGED << ssePc, sseSid, closeListener, lastPost >>
        /\ ( req.state = "inflight" /\ proc.pc = "serving" )
              => ENABLED ( UpstreamTick \/ UpstreamTimesOut )
        /\ ( req.state = "inflight" /\ req'.state # "inflight" )
              => /\ outcome'.kind \in OwnOutcomes
                 /\ outcome'.kind = "timeout" <=> req.elapsed = req.timeout
      ]_vars

\* The close listener of a session has run while the request of a tool call
\* that came over that session is still in flight.
C24_Witness ==
    \E c \in Conns :
        /\ req.state = "inflight"
        /\ call.pc = "awaiting"
        /\ call.session = c
        /\ closeListener[c]
        /\ ~clientOpen[c]
        /\ sseSid[c] \notin DOMAIN transportMap

====
